---- MODULE Spec2Model ----
(***************************************************************************)
(* Model of crates/mun_compiler/afl/generate_in_files.py: the script that  *)
(* scans a tree for *.snap files, extracts the `expression: "..."` snippet *)
(* of each with a regular expression and writes the snippets to numbered   *)
(* files of an output folder.                                              *)
(*                                                                         *)
(* A text (Python str) is a sequence of one-character strings.             *)
(***************************************************************************)
EXTENDS Integers, Sequences, FiniteSets, TLC

VARIABLES
    snaps,          \* the *.snap entries under the root: path -> text, or Unreadable
    outDirExists,   \* whether out_folder exists
    out,            \* the entries of out_folder: name -> Absent, IsDir or a text
    pc,             \* position of the run: start, extract, emit, done, aborted
    order,          \* the paths in the order find_snaps yields them in this run
    k,              \* position of the extraction loop in order (1-based)
    snippet,        \* local `snippet` of the extraction loop (last value)
    snippets,       \* the list `snippets`
    index,          \* `index` of the emitter loop
    stdout,         \* what print() wrote in this run
    written,        \* the names this run opened with "w" and wrote
    run,            \* number of the current run of generate_files
    out0,           \* out_folder as it was when the current run started
    prevOut,        \* out_folder as the previous run left it
    prevOrder,      \* traversal order of the previous run
    prevPc          \* how the previous run ended

vars == <<snaps, outDirExists, out, pc, order, k, snippet, snippets, index,
          stdout, written, run, out0, prevOut, prevOrder, prevPc>>

----------------------------------------------------------------------------
(* Bounds *)

MaxPieces == 3      \* a generated snapshot text is at most this many pieces
MaxFiles == 2       \* at most this many *.snap entries under the root
MaxRuns == 2        \* generate_files is run at most this many times

----------------------------------------------------------------------------
(* Characters and the literals of the source *)

NL == "\n"          \* a real newline character
BS == "\\"          \* a backslash
QUOTE == "\""       \* a double quote

\* the literal 'expression: "' (the constant part of the regex, and the
\* first argument of the first str.replace)
ExpressionLabel ==
    <<"e", "x", "p", "r", "e", "s", "s", "i", "o", "n", ":", " ", QUOTE>>

\* the alternatives of the regex group (pub|fn|struct), in order
Keywords == << <<"p", "u", "b">>, <<"f", "n">>, <<"s", "t", "r", "u", "c", "t">> >>

\* the literal "\\n" (backslash, n) and its replacement "\n"
EscapedNewline == <<BS, "n">>
RealNewline == <<NL>>

\* the value Python returns when extract_snippet falls off its end
None == <<"<None>">>

----------------------------------------------------------------------------
(* String primitives, as Python computes them *)

\* s.startswith(p, i-1): p occurs in s at 1-based position i
StartsWithAt(s, p, i) ==
    /\ i + Len(p) - 1 <= Len(s)
    /\ \A j \in 1..Len(p) : s[i + j - 1] = p[j]

\* str.replace(old, new): every non-overlapping occurrence, leftmost first
RECURSIVE ReplaceFrom(_, _, _, _)
ReplaceFrom(s, old, new, i) ==
    IF i > Len(s) THEN <<>>
    ELSE IF StartsWithAt(s, old, i)
         THEN new \o ReplaceFrom(s, old, new, i + Len(old))
         ELSE <<s[i]>> \o ReplaceFrom(s, old, new, i + 1)

Replace(s, old, new) == ReplaceFrom(s, old, new, 1)

\* (mutant of DropLast) the slice [0:-2]
DropLastTwo(s) == IF Len(s) <= 1 THEN <<>> ELSE SubSeq(s, 1, Len(s) - 2)

\* s[0:-1]: everything but the last character (empty stays empty)
DropLast(s) == IF Len(s) = 0 THEN <<>> ELSE SubSeq(s, 1, Len(s) - 1)

----------------------------------------------------------------------------
\* The regular expression of re.findall: the label, a keyword, then `.*`

\* the alternative of (pub|fn|struct) that matches at position i, 0 if none
KeywordAt(s, i) ==
    IF StartsWithAt(s, Keywords[1], i) THEN 1
    ELSE IF StartsWithAt(s, Keywords[2], i) THEN 2
    ELSE IF StartsWithAt(s, Keywords[3], i) THEN 3
    ELSE 0

\* the pattern matches starting at position i
MatchesAt(s, i) ==
    /\ StartsWithAt(s, ExpressionLabel, i)
    /\ KeywordAt(s, i + Len(ExpressionLabel)) # 0

\* `.*`: greedy, `.` is any character but a newline; the position after the
\* last character matched when the scan starts at i
RECURSIVE DotStarEnd(_, _)
DotStarEnd(s, i) ==
    IF i > Len(s) \/ s[i] = NL THEN i ELSE DotStarEnd(s, i + 1)

\* the spans <<first, last>> of the non-overlapping matches, left to right
RECURSIVE MatchSpansFrom(_, _)
MatchSpansFrom(s, i) ==
    IF i > Len(s) THEN <<>>
    ELSE IF MatchesAt(s, i)
         THEN LET e == DotStarEnd(s, i + Len(ExpressionLabel)) IN
              << <<i, e - 1>> >> \o MatchSpansFrom(s, e)
         ELSE MatchSpansFrom(s, i + 1)

MatchSpans(s) == MatchSpansFrom(s, 1)

\* re.findall: one tuple <<group 1, group 2>> per match
FindAll(s) ==
    LET spans == MatchSpans(s) IN
    [m \in 1..Len(spans) |->
        << SubSeq(s, spans[m][1], spans[m][2]),
           Keywords[KeywordAt(s, spans[m][1] + Len(ExpressionLabel))] >>]

----------------------------------------------------------------------------
(* extract_snippet *)

\* (mutant of extract_snippet) result[-1] instead of result[0]
extract_snippet_last(data) ==
    LET result == FindAll(data) IN
    IF Len(result) > 0
    THEN DropLast(Replace(Replace(result[Len(result)][1], ExpressionLabel, <<>>),
                          EscapedNewline, RealNewline))
    ELSE None

extract_snippet(data) ==
    LET result == FindAll(data) IN
    IF Len(result) > 0
    THEN DropLast(Replace(Replace(result[1][1], ExpressionLabel, <<>>),
                          EscapedNewline, RealNewline))
    ELSE None

\* Python truthiness of a str-or-None value
Truthy(v) == v # None /\ v # <<>>

----------------------------------------------------------------------------
(* The file system the script sees *)

\* what opening a *.snap entry that cannot be read as text gives (rglob
\* also yields directories named *.snap; open() raises on them)
Unreadable == <<"<Unreadable>">>

\* an entry of out_folder that does not exist / that is a directory
Absent == <<"<Absent>">>
IsDir == <<"<IsDir>">>

\* content of a file left in out_folder before the run
OldText == <<"o", "l", "d">>

\* the names index can take, and one more (a stale numbered file)
Names == 0..MaxFiles

\* the pieces snapshot texts are generated from
Pieces ==
    { ExpressionLabel,
      ExpressionLabel \o Keywords[1],
      ExpressionLabel \o Keywords[3],
      Keywords[2],
      EscapedNewline,
      <<QUOTE>>,
      <<NL>>,
      <<" ">>,
      <<"a">> }

RECURSIVE TextsOf(_)
TextsOf(n) ==
    IF n = 0 THEN {<<>>}
    ELSE LET shorter == TextsOf(n - 1) IN
         shorter \cup {t \o p : t \in shorter, p \in Pieces}

\* every text of at most MaxPieces pieces
Texts == TextsOf(MaxPieces)

\* the contents of the entries of the runs over several snapshot files
SampleContents ==
    << \* expression: "pub a\nb"
       ExpressionLabel \o Keywords[1] \o <<" ", "a">> \o EscapedNewline
           \o <<"b", QUOTE>>,
       \* expression: "fn
       ExpressionLabel \o Keywords[2],
       \* two fields on two lines
       ExpressionLabel \o Keywords[3] \o <<QUOTE, NL>>
           \o ExpressionLabel \o Keywords[2] \o <<QUOTE>>,
       \* an expression field that holds no keyword
       ExpressionLabel \o <<"a", QUOTE>>,
       \* a keyword outside any expression field
       Keywords[2] \o <<" ", "a">>,
       \* an entry that cannot be read
       Unreadable >>

\* the trees of n entries; paths are numbered so that the contents come in
\* the order of SampleContents (any tree is one of these up to the names
\* of its paths, and every traversal order of it is in Orders)
SampleTrees(n) ==
    {[p \in 1..n |-> SampleContents[c[p]]] :
        c \in {d \in [1..n -> 1..Len(SampleContents)] :
                  \A p, q \in 1..n : p <= q => d[p] <= d[q]}}

\* the orders in which rglob may yield the paths
Orders(paths) ==
    {o \in [1..Cardinality(paths) -> paths] :
        \A i, j \in 1..Cardinality(paths) : o[i] = o[j] => i = j}

----------------------------------------------------------------------------
(* generate_files *)

InitRun ==
    /\ pc = "start"
    /\ order = <<>>
    /\ k = 1
    /\ snippet = None
    /\ snippets = <<>>
    /\ index = 0
    /\ stdout = <<>>
    /\ written = {}
    /\ run = 1
    /\ out0 = out
    /\ prevOut = out
    /\ prevOrder = <<>>
    /\ prevPc = "none"

\* several snapshot files, any content of the output folder
Init ==
    /\ \E n \in 0..MaxFiles : snaps \in SampleTrees(n)
    /\ outDirExists \in BOOLEAN
    /\ out \in IF outDirExists THEN [Names -> {Absent, IsDir, OldText}]
                               ELSE {[n \in Names |-> Absent]}
    /\ InitRun

\* one snapshot file of any generated text, an empty output folder
InitExtract ==
    /\ snaps \in [1..1 -> Texts \cup {Unreadable}]
    /\ outDirExists \in BOOLEAN
    /\ out = [n \in Names |-> Absent]
    /\ InitRun

\* `for path in find_snaps(folder)`: the traversal starts
FindSnaps ==
    /\ pc = "start"
    /\ order' \in Orders(DOMAIN snaps)
    /\ pc' = "extract"
    /\ k' = 1
    /\ snippet' = None
    /\ snippets' = <<>>
    /\ index' = 0
    /\ stdout' = <<>>
    /\ written' = {}
    /\ out0' = out
    /\ UNCHANGED <<snaps, outDirExists, out, run, prevOut, prevOrder, prevPc>>

\* (mutant of ReadSnap) the `if snippet` filter is missing
ReadSnapUnfiltered ==
    /\ pc = "extract"
    /\ k <= Len(order)
    /\ snaps[order[k]] # Unreadable
    /\ LET data == snaps[order[k]] IN
       /\ snippet' = extract_snippet(data)
       /\ snippets' = Append(snippets, extract_snippet(data))
    /\ k' = k + 1
    /\ UNCHANGED <<snaps, outDirExists, out, pc, order, index, stdout, written, run,
                   out0, prevOut, prevOrder, prevPc>>

\* (mutant of ReadSnap) each snippet is written as soon as it is extracted
ReadSnapStreaming ==
    /\ pc = "extract"
    /\ k <= Len(order)
    /\ snaps[order[k]] # Unreadable
    /\ LET data == snaps[order[k]] IN
       /\ snippet' = extract_snippet(data)
       /\ snippets' = IF Truthy(snippet')
                      THEN Append(snippets, extract_snippet(data))
                      ELSE snippets
       /\ out' = IF Truthy(snippet') /\ outDirExists /\ out[Len(snippets)] # IsDir
                 THEN [out EXCEPT ![Len(snippets)] = snippet']
                 ELSE out
       /\ written' = IF out' # out THEN written \cup {Len(snippets)} ELSE written
    /\ k' = k + 1
    /\ UNCHANGED <<snaps, outDirExists, pc, order, index, stdout, run,
                   out0, prevOut, prevOrder, prevPc>>

\* one iteration of the first loop: open, read, extract, append
ReadSnap ==
    /\ pc = "extract"
    /\ k <= Len(order)
    /\ snaps[order[k]] # Unreadable
    /\ LET data == snaps[order[k]] IN
       /\ snippet' = extract_snippet(data)
       /\ snippets' = IF Truthy(snippet')
                      THEN Append(snippets, extract_snippet(data))
                      ELSE snippets
    /\ k' = k + 1
    /\ UNCHANGED <<snaps, outDirExists, out, pc, order, index, stdout, written, run,
                   out0, prevOut, prevOrder, prevPc>>

\* open(path, "r") or f.read() raises: nothing catches it
ReadFail ==
    /\ pc = "extract"
    /\ k <= Len(order)
    /\ snaps[order[k]] = Unreadable
    /\ pc' = "aborted"
    /\ UNCHANGED <<snaps, outDirExists, out, order, k, snippet, snippets,
                   index, stdout, written, run, out0, prevOut, prevOrder, prevPc>>

\* the first loop is exhausted: enumerate(snippets) starts
ExtractDone ==
    /\ pc = "extract"
    /\ k > Len(order)
    /\ pc' = "emit"
    /\ index' = 0
    /\ UNCHANGED <<snaps, outDirExists, out, order, k, snippet, snippets,
                   stdout, written, run, out0, prevOut, prevOrder, prevPc>>

\* (mutant of CanOpenOut) the folder is created when it is missing
CanOpenOutMakingDir(name) == out[name] # IsDir

\* open("{out_folder}/{index}", "w") succeeds
CanOpenOut(name) == outDirExists /\ out[name] # IsDir

\* (mutant of WriteFile) the file is opened with "a"
WriteFileAppend(old, text) == IF old = Absent THEN text ELSE old \o text

\* what open(.., "w") followed by f.write(text) leaves in the file
WriteFile(old, text) == text

\* (mutant of Emit) the files are numbered from 1
EmitOneBased ==
    /\ pc = "emit"
    /\ index < Len(snippets)
    /\ CanOpenOut(index + 1)
    /\ LET text == snippets[index + 1] IN
       /\ stdout' = stdout \o <<text, text>>
       /\ out' = [out EXCEPT ![index + 1] = WriteFile(out[index + 1], text)]
    /\ written' = written \cup {index + 1}
    /\ index' = index + 1
    /\ UNCHANGED <<snaps, outDirExists, pc, order, k, snippet, snippets, run,
                   out0, prevOut, prevOrder, prevPc>>

\* one iteration of the second loop: print, open, print, write, close
Emit ==
    /\ pc = "emit"
    /\ index < Len(snippets)
    /\ CanOpenOut(index)
    /\ LET text == snippets[index + 1] IN
       /\ stdout' = stdout \o <<text, text>>
       /\ out' = [out EXCEPT ![index] = WriteFile(out[index], text)]
    /\ written' = written \cup {index}
    /\ index' = index + 1
    /\ UNCHANGED <<snaps, outDirExists, pc, order, k, snippet, snippets, run,
                   out0, prevOut, prevOrder, prevPc>>

\* open(.., "w") raises after the first print: nothing catches it
EmitFail ==
    /\ pc = "emit"
    /\ index < Len(snippets)
    /\ ~CanOpenOut(index)
    /\ stdout' = Append(stdout, snippets[index + 1])
    /\ pc' = "aborted"
    /\ UNCHANGED <<written, snaps, outDirExists, out, order, k, snippet, snippets,
                   index, run, out0, prevOut, prevOrder, prevPc>>

\* (mutant of EmitDone) stale numbered files are deleted at the end
EmitDoneCleaning ==
    /\ pc = "emit"
    /\ index = Len(snippets)
    /\ pc' = "done"
    /\ out' = [n \in Names |->
                 IF n >= Len(snippets) /\ out[n] # IsDir THEN Absent ELSE out[n]]
    /\ UNCHANGED <<snaps, outDirExists, order, k, snippet, snippets,
                   index, stdout, written, run, out0, prevOut, prevOrder, prevPc>>

\* the second loop is exhausted: generate_files returns
EmitDone ==
    /\ pc = "emit"
    /\ index = Len(snippets)
    /\ pc' = "done"
    /\ UNCHANGED <<snaps, outDirExists, out, order, k, snippet, snippets,
                   index, stdout, written, run, out0, prevOut, prevOrder, prevPc>>

\* the script is run again on the same folders
Rerun ==
    /\ pc \in {"done", "aborted"}
    /\ run < MaxRuns
    /\ run' = run + 1
    /\ prevOut' = out
    /\ prevOrder' = order
    /\ prevPc' = pc
    /\ pc' = "start"
    /\ UNCHANGED <<snaps, outDirExists, out, order, k, snippet, snippets,
                   index, stdout, written, out0>>

Next ==
    \/ FindSnaps
    \/ ReadSnap
    \/ ReadFail
    \/ ExtractDone
    \/ Emit
    \/ EmitFail
    \/ EmitDone
    \/ Rerun

Spec == Init /\ [][Next]_vars

SpecExtract == InitExtract /\ [][Next]_vars

----------------------------------------------------------------------------
(* Vocabulary of the properties *)

\* the text holds the label followed by a keyword somewhere
HasField(t) == t # Unreadable /\ \E i \in 1..Len(t) : MatchesAt(t, i)

\* the snapshot text read by the latest iteration of the first loop
LastData == snaps[order[k - 1]]
HasRead == k > 1 /\ pc # "start"

\* the positions of the traversal already read that hold a field
FieldsRead == {j \in 1..(k - 1) : HasField(snaps[order[j]])}

\* the first match is a whole well-formed field: label, content without a
\* quote, closing quote at the end of the line
FirstLine(t) == FindAll(t)[1][1]
FirstContent(t) ==
    SubSeq(FirstLine(t), Len(ExpressionLabel) + 1, Len(FirstLine(t)) - 1)
WellFormedFirst(t) ==
    /\ HasField(t)
    /\ FirstLine(t)[Len(FirstLine(t))] = QUOTE
    /\ \A i \in 1..Len(FirstContent(t)) : FirstContent(t)[i] # QUOTE

\* every backslash-n of s turned into a newline, nothing else touched
RECURSIVE Unescaped(_)
Unescaped(s) ==
    IF Len(s) = 0 THEN <<>>
    ELSE IF Len(s) >= 2 /\ s[1] = BS /\ s[2] = "n"
         THEN <<NL>> \o Unescaped(SubSeq(s, 3, Len(s)))
         ELSE <<s[1]>> \o Unescaped(Tail(s))

\* t without the characters of its second and later matches
RemoveLaterMatches(t) ==
    LET spans == MatchSpans(t)
        kept == {i \in 1..Len(t) :
                    \A m \in 2..Len(spans) : i < spans[m][1] \/ i > spans[m][2]}
        Pick(i) == IF i \in kept THEN <<t[i]>> ELSE <<>>
        F[i \in 0..Len(t)] == IF i = 0 THEN <<>> ELSE F[i - 1] \o Pick(i)
    IN F[Len(t)]

\* the texts of the traversal that yield a snippet, in traversal order
IsYielding(t) == t # Unreadable /\ Truthy(extract_snippet(t))
Yielding == SelectSeq([j \in 1..Len(order) |-> snaps[order[j]]], IsYielding)

\* the names of out_folder whose entry differs from the start of the run
Changed == {n \in Names : out[n] # out0[n]}

----------------------------------------------------------------------------
(* Properties *)

\* C1: when the first match of the text read is a well-formed field
\* expression: "<content>", the snippet extracted is exactly <content> with
\* every backslash-n turned into a newline (closing quote removed, nothing
\* else added, removed or changed).
C1_ExactContent ==
    (HasRead /\ WellFormedFirst(LastData))
        => snippet = Unescaped(FirstContent(LastData))

\* C2: a run that completes over N snapshot files of which M yield a
\* non-empty extraction has written exactly the files 0..M-1, file i
\* holding the snippet of the i-th yielding file in traversal order.
C2_OutputCount ==
    pc = "done" =>
        /\ Len(snippets) = Len(Yielding)
        /\ written = 0..(Len(Yielding) - 1)
        /\ \A i \in 0..(Len(Yielding) - 1) :
              out[i] = extract_snippet(Yielding[i + 1])

C2_Witness ==
    /\ pc = "done"
    /\ Len(order) = 2
    /\ Len(Yielding) = 1
    /\ ~IsYielding(snaps[order[1]])
    /\ out[0] = extract_snippet(snaps[order[2]])

\* C3: every file the emitter loop has written holds exactly the text of the
\* snippet at its position, whatever the file held before.
C3_VerbatimOverwrite ==
    pc \in {"emit", "done", "aborted"} =>
        \A i \in 0..(index - 1) : out[i] = snippets[i + 1]

C3_Witness ==
    /\ pc = "done"
    /\ index = 2
    /\ out0[0] = OldText /\ out[0] = snippets[1]
    /\ out0[1] = Absent /\ out[1] = snippets[2]

\* C4: a text without the label followed by pub, fn or struct gives None,
\* and such a file neither adds a snippet nor consumes an output index: the
\* snippets, the index and the files written are bounded by the number of
\* files read that hold a field.
C4_NoFieldNoOutput ==
    /\ (HasRead /\ ~HasField(LastData)) => snippet = None
    /\ Len(snippets) <= Cardinality(FieldsRead)
    /\ index <= Cardinality(FieldsRead)
    /\ \A n \in written \cup Changed : n < Cardinality(FieldsRead)

C4_Witness ==
    /\ pc = "done"
    /\ HasRead
    /\ ~HasField(LastData)
    /\ \E i \in 1..Len(LastData) : StartsWithAt(LastData, ExpressionLabel, i)
    /\ snippet = None
    /\ snippets = <<>>

\* C5: when the text read has several matches, the snippet is the one the
\* text gives with its later matches removed, and the file contributes at
\* most one snippet.
C5_FirstMatchOnly ==
    (HasRead /\ Len(MatchSpans(LastData)) >= 2) =>
        /\ snippet = extract_snippet(RemoveLaterMatches(LastData))
        /\ Len(snippets) <= k - 1

C5_Witness ==
    /\ pc = "done"
    /\ HasRead
    /\ Len(FindAll(LastData)) >= 2
    /\ FindAll(LastData)[1] # FindAll(LastData)[2]
    /\ snippets = <<snippet>>

\* C6: a second run with the same traversal order ends as the first did and
\* leaves every entry of the output folder as the first run left it.
C6_Idempotent ==
    (run >= 2 /\ pc \in {"done", "aborted"} /\ order = prevOrder) =>
        /\ out = prevOut
        /\ pc = prevPc

C6_Witness ==
    /\ run = 2
    /\ pc = "done"
    /\ order = prevOrder
    /\ Len(order) = 2
    /\ index = 2
    /\ out = prevOut

\* C7 as stated: with the output folder missing no run completes normally.
C7_MissingDirAlwaysAborts == ~outDirExists => pc # "done"

\* C7 amended: with the output folder missing, the folder and its files are
\* never created; a run that extracted at least one snippet aborts at its
\* first write, and only a run without snippets completes.
C7_MissingDirAborts ==
    /\ [](~outDirExists =>
            /\ \A n \in Names : out[n] = Absent
            /\ written = {}
            /\ pc = "done" => Len(snippets) = 0)
    /\ [][(~outDirExists /\ pc = "emit" /\ Len(snippets) >= 1)
            => (pc' = "aborted" /\ ~outDirExists' /\ out' = out)]_vars

C7_Witness ==
    /\ ~outDirExists
    /\ pc = "aborted"
    /\ k > Len(order)
    /\ Len(snippets) >= 1
    /\ index = 0

\* C8: nothing is opened, written or printed by the emitter before every
\* snapshot file of the traversal has been read, and no file is read once
\* the emitter has started.
C8_ExtractBeforeEmit ==
    /\ pc = "extract" => (out = out0 /\ written = {} /\ stdout = <<>>)
    /\ (pc # "start" /\ (out # out0 \/ written # {} \/ stdout # <<>>))
          => (k = Len(order) + 1 /\ pc \in {"emit", "done", "aborted"})

C8_Witness ==
    /\ pc = "emit"
    /\ index = 1
    /\ Len(order) = 2
    /\ Len(snippets) = 2
    /\ out # out0

\* C9: no step changes a snapshot file, and no step changes an entry of the
\* output folder whose name is not below the number of snippets.
C9_Frame ==
    [][/\ snaps' = snaps
       /\ \A n \in Names : out'[n] # out[n] => n < Len(snippets)]_vars

C9_Witness ==
    /\ pc = "done"
    /\ Len(snippets) = 1
    /\ out[0] = snippets[1]
    /\ out[1] = OldText
    /\ out[2] = IsDir

\* C10: the snippet is never the empty string: when the text read holds a
\* field, what is left of the first match after removing the label still
\* begins with the matched keyword and the snippet has a character; hence
\* the snippets are as many as the files read that hold a field.
C10_NeverEmpty ==
    /\ snippet # <<>>
    /\ (HasRead /\ HasField(LastData)) =>
          /\ StartsWithAt(Replace(FindAll(LastData)[1][1], ExpressionLabel, <<>>),
                          FindAll(LastData)[1][2], 1)
          /\ snippet # None
          /\ Len(snippet) >= 1
    /\ Len(snippets) = Cardinality(FieldsRead)

C10_Witness ==
    /\ pc = "done"
    /\ HasRead
    /\ HasField(LastData)
    /\ Len(snippet) = 1
    /\ snippets = <<snippet>>

====
